---- MODULE Spec2Model ----
(***************************************************************************)
(* Model of xtgeo.grid3d.Grid (src/xtgeo/grid3d/grid.py): the corner-point *)
(* grid store (dimensions, COORD, ZCORN, ACTNUM), its cached derived state *)
(* (number of active cells, active-cell index array), the import methods   *)
(* and the operations that change the geometry or the active mask; and of  *)
(* xtgeo.grid3d.GridProperties (grid_properties.py), the collection of     *)
(* properties with its names and dates.                                    *)
(*                                                                         *)
(* The numerical kernels of the cxtgeo C library are not part of the       *)
(* Python sources; they are modelled from the specification text and are   *)
(* the operators whose names start with grd3d_.                            *)
(***************************************************************************)
EXTENDS Integers, Sequences, FiniteSets, TLC

(***************************************************************************)
(* Bounds of the model.  FloatBits is the number of significant bits of a  *)
(* double in the model: sums beyond it are rounded.                        *)
(***************************************************************************)
MaxCol == 2
MaxRow == 2
MaxLay == 2
MaxCells == 4
MaxImports == 2
MaxMoves == 2
MaxList == 2
MaxEntries == 2
MaxCopies == 1
FloatBits == 8

(***************************************************************************)
(* Program constants: the dimensions set by Grid.__init__.                 *)
(***************************************************************************)
DefaultNcol == 4
DefaultNrow == 3
DefaultNlay == 5
NactiveUnset == 0 - 999

VARIABLES
    ncol,            \* self._ncol
    nrow,            \* self._nrow
    nlay,            \* self._nlay
    nsubs,           \* self._nsubs
    p_coord_v,       \* self._p_coord_v   (C array of doubles, or None)
    p_zcorn_v,       \* self._p_zcorn_v   (C array of doubles, or None)
    p_actnum_v,      \* self._p_actnum_v  (C array of ints, or None)
    nactive,         \* self._nactive
    actnum_indices,  \* self._actnum_indices (cached array, or None)
    props,           \* self._props
    nimports,        \* number of from_file calls made so far (model bound)
    moves,           \* the translate_coordinates calls made so far
    gridprops,       \* a GridProperties instance (grid_properties.py)
    last             \* the last call: its name, arguments, outcome, result

vars == <<ncol, nrow, nlay, nsubs, p_coord_v, p_zcorn_v, p_actnum_v,
          nactive, actnum_indices, props, nimports, moves, gridprops, last>>

\* everything a Grid instance holds
grid == <<ncol, nrow, nlay, nsubs, p_coord_v, p_zcorn_v, p_actnum_v,
          nactive, actnum_indices, props>>

(***************************************************************************)
(* Pointers to C arrays: None, or an array of values.                      *)
(***************************************************************************)
None == [null |-> TRUE, v |-> <<>>]

Ptr(a) == [null |-> FALSE, v |-> a]

\* _cxtgeo.new_doublearray(n) / new_intarray(n): calloc'ed array
new_array(n) == Ptr([x \in 1..n |-> 0])

(***************************************************************************)
(* Index conventions of the flat arrays (0-based i, j, k; sequences are    *)
(* 1-based, hence the + 1).                                                *)
(***************************************************************************)
\* linear cell index: k*nrow*ncol + j*ncol + i
CellIdx(nc, nr, i, j, k) == k * nr * nc + j * nc + i + 1

\* corner depth c (0..3) of footprint (i,j) at layer boundary kb (0..nlay)
ZIdx(nc, nr, i, j, kb, c) == ((kb * nr + j) * nc + i) * 4 + c + 1

\* component m (0..5: xtop ytop ztop xbot ybot zbot) of pillar (pi,pj)
CIdx(nc, pi, pj, m) == (pj * (nc + 1) + pi) * 6 + m + 1

Ntot(nc, nr, nl) == nc * nr * nl

Ncoord(nc, nr) == (nc + 1) * (nr + 1) * 2 * 3

Nzcorn(nc, nr, nl) == nc * nr * (nl + 1) * 4

RECURSIVE SumTo(_, _)
SumTo(s, n) == IF n = 0 THEN 0 ELSE s[n] + SumTo(s, n - 1)

\* number of entries equal to 1
CountOnes(a) == Cardinality({x \in 1..Len(a) : a[x] = 1})

RECURSIVE Ascending(_)
Ascending(S) ==
    IF S = {} THEN <<>>
    ELSE LET m == CHOOSE x \in S : \A y \in S : x <= y
         IN  <<m>> \o Ascending(S \ {m})

\* np.flatnonzero(values): ascending 0-based indices of the non-zero entries
flatnonzero(a) == Ascending({y - 1 : y \in {x \in 1..Len(a) : a[x] # 0}})

(***************************************************************************)
(* Grid files.  A file holds the dimensions, a regular box geometry with   *)
(* cells of 100 x 100 in the horizontal, one thickness per layer, and an   *)
(* active mask.  ROFF files also carry a subgrid count.                    *)
(***************************************************************************)
ThickSet == {2, 5}

ActPatterns == {"all", "first"}

\* thickness of the layers: the first one varies, the others are 5
ThickOf(t, l) == [k \in 1..l |-> IF k = 1 THEN t ELSE 5]

Dims ==
    {d \in (1..MaxCol) \X (1..MaxRow) \X (1..MaxLay) :
        d[1] * d[2] * d[3] <= MaxCells}

Files ==
    {[ncol |-> d[1], nrow |-> d[2], nlay |-> d[3],
      thick |-> ThickOf(t, d[3]), act |-> a] :
        d \in Dims, t \in ThickSet, a \in ActPatterns}

\* COORD of the file: vertical pillars from depth 0 to depth 100
FileCoord(f) ==
    [x \in 1..Ncoord(f.ncol, f.nrow) |->
        LET m  == (x - 1) % 6
            p  == (x - 1) \div 6
            pi == p % (f.ncol + 1)
            pj == p \div (f.ncol + 1)
        IN  CASE m \in {0, 3} -> pi * 100
              [] m \in {1, 4} -> pj * 100
              [] m = 2 -> 0
              [] m = 5 -> 100]

\* ZCORN of the file: boundary kb lies at the sum of the thicknesses above
FileZcorn(f) ==
    [x \in 1..Nzcorn(f.ncol, f.nrow, f.nlay) |->
        SumTo(f.thick, ((x - 1) \div 4) \div (f.ncol * f.nrow))]

\* ACTNUM of the file
FileActnum(f) ==
    [x \in 1..Ntot(f.ncol, f.nrow, f.nlay) |->
        IF f.act = "first" /\ x = 1 THEN 0 ELSE 1]

\* subgrid count of a ROFF file
FileNsubs(f) == IF f.nlay >= 2 THEN 2 ELSE 0

(***************************************************************************)
(* Kernels of the cxtgeo library (modelled from the specification).        *)
(* Depths, coordinates and thresholds are integers; a mean of n values is  *)
(* compared through their sum (mean < t  <=>  sum < n * t).                *)
(***************************************************************************)
\* 0-based (i, j, k) of the 1-based linear position x
CellI(nc, x) == (x - 1) % nc

CellJ(nc, nr, x) == ((x - 1) \div nc) % nr

CellK(nc, nr, x) == (x - 1) \div (nc * nr)

\* four times the dz of cell (i,j,k): the sum of its four vertical edges
\* (grd3d_calc_dz, also used by grd3d_inact_by_dz)
Dz4(nc, nr, zc, i, j, k, nflip) ==
    LET edge(c) == zc[ZIdx(nc, nr, i, j, k + 1, c)] - zc[ZIdx(nc, nr, i, j, k, c)]
    IN  nflip * (edge(0) + edge(1) + edge(2) + edge(3))

\* variant: the mask is set from the thickness alone
grd3d_inact_by_dz_from_dz_alone(nc, nr, nl, zc, act, threshold, nflip) ==
    [x \in 1..Len(act) |->
        IF Dz4(nc, nr, zc, CellI(nc, x), CellJ(nc, nr, x), CellK(nc, nr, x), nflip)
              < 4 * threshold
        THEN 0 ELSE 1]

\* grd3d_inact_by_dz: the new ACTNUM
grd3d_inact_by_dz(nc, nr, nl, zc, act, threshold, nflip) ==
    [x \in 1..Len(act) |->
        IF Dz4(nc, nr, zc, CellI(nc, x), CellJ(nc, nr, x), CellK(nc, nr, x), nflip)
              < 4 * threshold
        THEN 0 ELSE act[x]]

\* grd3d_reduce_onelayer: the new ZCORN, the new ACTNUM and its active count
grd3d_reduce_onelayer(nc, nr, nl, zc, act) ==
    LET newz == [x \in 1..Nzcorn(nc, nr, 1) |->
                    LET c  == (x - 1) % 4
                        q  == (x - 1) \div 4
                        i  == q % nc
                        j  == (q \div nc) % nr
                        kb == q \div (nc * nr)
                    IN  zc[ZIdx(nc, nr, i, j, IF kb = 0 THEN 0 ELSE nl, c)]]
        newa == [x \in 1..Ntot(nc, nr, 1) |->
                    IF \E k \in 0..(nl - 1) :
                          act[CellIdx(nc, nr, CellI(nc, x), CellJ(nc, nr, x), k)] = 1
                    THEN 1 ELSE 0]
    IN  [zcorn |-> newz, actnum |-> newa, nact |-> CountOnes(newa)]

\* variant: the layers above the first active cell are snapped onto its base
grd3d_collapse_inact_onto_base(nc, nr, nl, zc, act) ==
    [x \in 1..Len(zc) |->
        LET c   == (x - 1) % 4
            q   == (x - 1) \div 4
            i   == q % nc
            j   == (q \div nc) % nr
            kb  == q \div (nc * nr)
            on  == {k \in 0..(nl - 1) : act[CellIdx(nc, nr, i, j, k)] = 1}
            top == CHOOSE k \in on : \A m \in on : k <= m
            bot == CHOOSE k \in on : \A m \in on : k >= m
        IN  IF on = {} THEN zc[x]
            ELSE IF kb <= top THEN zc[ZIdx(nc, nr, i, j, top + 1, c)]
            ELSE IF kb > bot + 1 THEN zc[ZIdx(nc, nr, i, j, bot + 1, c)]
            ELSE zc[x]]

\* grd3d_collapse_inact: the new ZCORN.  In a footprint with active cells the
\* inactive layers above the first and below the last active layer get zero
\* thickness; the active cells keep their shape.
grd3d_collapse_inact(nc, nr, nl, zc, act) ==
    [x \in 1..Len(zc) |->
        LET c   == (x - 1) % 4
            q   == (x - 1) \div 4
            i   == q % nc
            j   == (q \div nc) % nr
            kb  == q \div (nc * nr)
            on  == {k \in 0..(nl - 1) : act[CellIdx(nc, nr, i, j, k)] = 1}
            top == CHOOSE k \in on : \A m \in on : k <= m
            bot == CHOOSE k \in on : \A m \in on : k >= m
        IN  IF on = {} THEN zc[x]
            ELSE IF kb < top THEN zc[ZIdx(nc, nr, i, j, top, c)]
            ELSE IF kb > bot + 1 THEN zc[ZIdx(nc, nr, i, j, bot + 1, c)]
            ELSE zc[x]]

\* X (m = 0) or Y (m = 1) of pillar (pi,pj) at depth z: linear along the pillar
PillarAt(nc, co, pi, pj, z, m) ==
    LET t  == co[CIdx(nc, pi, pj, m)]
        b  == co[CIdx(nc, pi, pj, m + 3)]
        zt == co[CIdx(nc, pi, pj, 2)]
        zb == co[CIdx(nc, pi, pj, 5)]
    IN  IF zb = zt THEN t ELSE t + ((z - zt) * (b - t)) \div (zb - zt)

\* variant: the base face is read at the boundary of the top face
Corner_base_as_top(nc, nr, co, zc, i, j, k, n, m) ==
    LET c == n % 4
        z == zc[ZIdx(nc, nr, i, j, k, c)]
    IN  IF m = 2 THEN z
        ELSE PillarAt(nc, co, i + (c % 2), j + (c \div 2), z, m)

\* corner n (0..7; 0..3 top face, 4..7 base face) of cell (i,j,k):
\* its X (m = 0), Y (m = 1) or Z (m = 2)   (grd3d_corners)
Corner(nc, nr, co, zc, i, j, k, n, m) ==
    LET c == n % 4
        z == zc[ZIdx(nc, nr, i, j, k + (n \div 4), c)]
    IN  IF m = 2 THEN z
        ELSE PillarAt(nc, co, i + (c % 2), j + (c \div 2), z, m)

\* eight times the centre of cell (i,j,k): the sum of its 8 corners
Mid8(nc, nr, co, zc, i, j, k, m) ==
    LET cn(n) == Corner(nc, nr, co, zc, i, j, k, n, m)
    IN  cn(0) + cn(1) + cn(2) + cn(3) + cn(4) + cn(5) + cn(6) + cn(7)

\* a polygon is a rectangle (x1,y1)-(x2,y2), closed or left open; a point is
\* inside when it lies strictly within it
PointInside(x8, y8, pol) ==
    /\ 8 * pol.x1 < x8 /\ x8 < 8 * pol.x2
    /\ 8 * pol.y1 < y8 /\ y8 < 8 * pol.y2

\* the centres of all cells, times eight, as the polygon kernel computes
\* them from COORD and ZCORN: <<X, Y>> at the linear position of the cell
RECURSIVE MidsTo(_, _, _, _, _)
MidsTo(n, nc, nr, co, zc) ==
    IF n = 0 THEN <<>>
    ELSE Append(MidsTo(n - 1, nc, nr, co, zc),
           <<Mid8(nc, nr, co, zc, CellI(nc, n), CellJ(nc, nr, n), CellK(nc, nr, n), 0),
             Mid8(nc, nr, co, zc, CellI(nc, n), CellJ(nc, nr, n), CellK(nc, nr, n), 1)>>)

CellMids(nc, nr, nl, co, zc) == MidsTo(Ntot(nc, nr, nl), nc, nr, co, zc)

\* grd3d_inact_outside_pol: the new ACTNUM and the return code (1 when a
\* polygon could not be used: open, and closing not asked for); mids are
\* the cell centres of the grid
grd3d_inact_outside_pol(pols, nc, nr, nl, mids, act, k1, k2, iforce, method) ==
    LET usable == {p \in 1..Len(pols) : pols[p].closed \/ iforce = 1}
        within(x) ==
            \E p \in usable : PointInside(mids[x][1], mids[x][2], pols[p])
    IN  [actnum |->
            [x \in 1..Len(act) |->
                LET k == CellK(nc, nr, x)
                IN  IF k + 1 >= k1 /\ k + 1 <= k2
                       /\ ((method = 0 /\ within(x)) \/
                           (method = 1 /\ ~within(x)))
                    THEN 0 ELSE act[x]],
         ier |-> IF usable = 1..Len(pols) THEN 0 ELSE 1]

(***************************************************************************)
(* Doubles.  COORD and ZCORN are C arrays of doubles: the result of an     *)
(* addition or a multiplication is the representable value nearest to it.  *)
(* Values are integers of at most FloatBits significant bits times a power *)
(* of two.                                                                 *)
(***************************************************************************)
Abs(v) == IF v < 0 THEN 0 - v ELSE v

\* the distance between neighbouring doubles at magnitude a
RECURSIVE Ulp(_)
Ulp(a) == IF a < 2 ^ FloatBits THEN 1 ELSE 2 * Ulp(a \div 2)

\* the double nearest to v, ties to even
Fl(v) ==
    LET a == Abs(v)
        u == Ulp(a)
        q == a \div u
        r == a % u
        n == IF 2 * r < u THEN q
             ELSE IF 2 * r > u THEN q + 1
             ELSE IF q % 2 = 0 THEN q ELSE q + 1
    IN  IF v < 0 THEN 0 - (n * u) ELSE n * u

\* a value of a property array: masked (undefined), or defined
Masked == [masked |-> TRUE, v |-> <<>>]

Value(v) == [masked |-> FALSE, v |-> v]

\* grd3d_translate: COORD and ZCORN after the move and the return code.  The
\* flips are validated first (each is 1 or -1); every X, Y, Z of the pillars
\* and every corner depth is shifted and then flipped.
grd3d_translate(nc, nr, nl, flip, tr, co, zc) ==
    IF \E m \in 1..3 : flip[m] \notin {1, 0 - 1}
    THEN [coord |-> co, zcorn |-> zc, ier |-> 0 - 1]
    ELSE [coord |-> [x \in 1..Len(co) |->
                        LET m == ((x - 1) % 3) + 1
                        IN  Fl(flip[m] * Fl(co[x] + tr[m]))],
          zcorn |-> [x \in 1..Len(zc) |-> Fl(flip[3] * Fl(zc[x] + tr[3]))],
          ier |-> 0]

\* grd3d_calc_dz: per cell four times its dz (the sum of the four vertical
\* edges, times nflip); with option 1 the inactive cells are undefined
grd3d_calc_dz(nc, nr, nl, zc, act, nflip, option) ==
    [x \in 1..Ntot(nc, nr, nl) |->
        IF option = 1 /\ act[x] = 0 THEN Masked
        ELSE Value(Dz4(nc, nr, zc, CellI(nc, x), CellJ(nc, nr, x),
                       CellK(nc, nr, x), nflip))]

\* grd3d_calc_xyz: per cell eight times its centre <<X, Y, Z>> (the sum of
\* the eight corners); with option 1 the inactive cells are undefined
grd3d_calc_xyz(nc, nr, nl, co, zc, act, option) ==
    [x \in 1..Ntot(nc, nr, nl) |->
        IF option = 1 /\ act[x] = 0 THEN Masked
        ELSE Value(<<Mid8(nc, nr, co, zc, CellI(nc, x), CellJ(nc, nr, x),
                          CellK(nc, nr, x), 0),
                     Mid8(nc, nr, co, zc, CellI(nc, x), CellJ(nc, nr, x),
                          CellK(nc, nr, x), 1),
                     Mid8(nc, nr, co, zc, CellI(nc, x), CellJ(nc, nr, x),
                          CellK(nc, nr, x), 2)>>)]

\* grd3d_corners for the 1-based cell (i,j,k): the 24 values x1, y1, z1, ...,
\* x8, y8, z8; the indices are validated against the dimensions
grd3d_corners(i, j, k, nc, nr, nl, co, zc) ==
    IF i \notin 1..nc \/ j \notin 1..nr \/ k \notin 1..nl
    THEN [ok |-> FALSE, v |-> <<>>]
    ELSE [ok |-> TRUE,
          v |-> [x \in 1..24 |->
                    Corner(nc, nr, co, zc, i - 1, j - 1, k - 1,
                           (x - 1) \div 3, (x - 1) % 3)]]

(***************************************************************************)
(* The Grid object.                                                        *)
(***************************************************************************)
\* record of a call: name, argument, outcome ("ok" or the exception), result,
\* and what the call found (reduce_to_one_layer: the sizes; the polygon
\* operations: the cell centres)
Call(op, arg, res, ret) ==
    [op |-> op, arg |-> arg, res |-> res, ret |-> ret, pre |-> <<>>]

\* GridProperty(ncol=..., nrow=..., nlay=..., values=..., name=...,
\* discrete=...): the object holds what it was given, and no codes
GridProperty(nc, nr, nl, values, name, discrete) ==
    [ncol |-> nc, nrow |-> nr, nlay |-> nl, values |-> values, name |-> name,
     discrete |-> discrete, codes |-> <<>>, ncodes |-> 0]

\* the attributes of the Grid instance, as a record
Self ==
    [ncol |-> ncol, nrow |-> nrow, nlay |-> nlay, nsubs |-> nsubs,
     p_coord_v |-> p_coord_v, p_zcorn_v |-> p_zcorn_v,
     p_actnum_v |-> p_actnum_v, nactive |-> nactive,
     actnum_indices |-> actnum_indices, props |-> props]

\* the instance has the attributes g (now / after the step)
Is(g) ==
    /\ ncol = g.ncol /\ nrow = g.nrow /\ nlay = g.nlay /\ nsubs = g.nsubs
    /\ p_coord_v = g.p_coord_v /\ p_zcorn_v = g.p_zcorn_v
    /\ p_actnum_v = g.p_actnum_v /\ nactive = g.nactive
    /\ actnum_indices = g.actnum_indices /\ props = g.props

Becomes(g) ==
    /\ ncol' = g.ncol /\ nrow' = g.nrow /\ nlay' = g.nlay /\ nsubs' = g.nsubs
    /\ p_coord_v' = g.p_coord_v /\ p_zcorn_v' = g.p_zcorn_v
    /\ p_actnum_v' = g.p_actnum_v /\ nactive' = g.nactive
    /\ actnum_indices' = g.actnum_indices /\ props' = g.props

\* GridProperties.__init__: the default dimensions and three empty lists.
\* names_is_str tells that _names holds the empty string instead of a list,
\* gen counts the copy() calls that made this instance, and named tells
\* whether the names setter has stored the value it was given.
GridProperties ==
    [ncol |-> DefaultNcol, nrow |-> DefaultNrow, nlay |-> DefaultNlay,
     props |-> <<>>, names |-> <<>>, dates |-> <<>>,
     names_is_str |-> FALSE, gen |-> 0, named |-> FALSE]

\* Grid.__init__, before the optional import
Constructed ==
    [ncol |-> DefaultNcol, nrow |-> DefaultNrow, nlay |-> DefaultNlay,
     nsubs |-> 0, p_coord_v |-> None, p_zcorn_v |-> None,
     p_actnum_v |-> None, nactive |-> NactiveUnset,
     actnum_indices |-> None, props |-> <<>>]

\* the three arrays exist; the kernels are only called on such a grid
Populated == ~p_coord_v.null /\ ~p_zcorn_v.null /\ ~p_actnum_v.null

\* Grid.ntotal
ntotal == ncol * nrow * nlay

(***************************************************************************)
(* Import.  A kernel may fail when it scans the header of the file (scan)  *)
(* or when it reads the arrays (read).  Each import method maps the        *)
(* attributes before the call to the attributes after it.                  *)
(***************************************************************************)
FailSteps == {"none", "scan", "read"}

\* the statements shared by the import methods: the dimensions are set from
\* the header, the arrays are allocated, and the kernel fills them and
\* counts the active cells
ScanAndRead(self, f, fail) ==
    LET scanned == [self EXCEPT !.ncol = f.ncol, !.nrow = f.nrow,
                                !.nlay = f.nlay]
        alloc   == [scanned EXCEPT
                      !.p_coord_v = new_array(Ncoord(f.ncol, f.nrow)),
                      !.p_zcorn_v = new_array(Nzcorn(f.ncol, f.nrow, f.nlay)),
                      !.p_actnum_v = new_array(Ntot(f.ncol, f.nrow, f.nlay))]
    IN  IF fail = "read" THEN alloc
        ELSE [alloc EXCEPT !.p_coord_v = Ptr(FileCoord(f)),
                           !.p_zcorn_v = Ptr(FileZcorn(f)),
                           !.p_actnum_v = Ptr(FileActnum(f)),
                           !.nactive = CountOnes(FileActnum(f))]

\* Grid._import_roff
import_roff(self, f, fail) ==
    IF fail = "scan" THEN self
    ELSE ScanAndRead([self EXCEPT !.nsubs = FileNsubs(f)], f, fail)

\* Grid._import_ecl_output (gtype 0: GRID, gtype 2: EGRID)
import_ecl_output(self, f, gtype, fail) ==
    IF gtype \in {1, 3} \/ fail = "scan" THEN self
    ELSE IF fail = "read" THEN ScanAndRead(self, f, fail)
    ELSE [ScanAndRead(self, f, fail) EXCEPT !.nsubs = 0]

\* Grid._import_ecl_grdecl; a file without a SPECGRID line (scan) is logged
\* and nothing is imported
import_ecl_grdecl(self, f, fail) ==
    IF fail = "scan" THEN self
    ELSE IF fail = "read" THEN ScanAndRead(self, f, fail)
    ELSE [ScanAndRead(self, f, fail) EXCEPT !.nsubs = 0]

\* a property read for a grid: it has the dimensions of that grid
PropFor(name, nc, nr, nl) == [name |-> name, ncol |-> nc, nrow |-> nr, nlay |-> nl]

\* Grid._import_ecl_run: the EGRID import, then the properties asked for
import_ecl_run(self, f, initprops, fail) ==
    LET g == import_ecl_output(self, f, 2, fail)
    IN  IF fail = "none" /\ initprops
        THEN [g EXCEPT !.props = Append(g.props, PropFor("PORO", g.ncol, g.nrow, g.nlay))]
        ELSE g

\* outcome of an import method
ImportResult(fformat, fail) ==
    IF fail = "none" \/ (fformat = "grdecl" /\ fail = "scan")
    THEN "ok" ELSE "KernelError"

fflist == {"egrid", "grid", "grdecl", "roff", "eclipserun", "guess"}

\* the format after the guess from the file extension
GuessFormat(fformat, fext) ==
    IF fformat = "guess" /\ fext # "" /\ fext \in (fflist \ {"guess"})
    THEN fext ELSE fformat

\* variant: the file is not looked for before the import
RequestError_file_not_tested(req) ==
    IF req.fformat \notin fflist THEN "ValueError"
    ELSE IF req.fext = "" /\ GuessFormat(req.fformat, req.fext) = "guess"
         THEN "ValueError"
    ELSE IF GuessFormat(req.fformat, req.fext) = "guess" THEN "SystemExit"
    ELSE "none"

\* the exception from_file raises before it calls an import method, if any
RequestError(req) ==
    IF req.fformat \notin fflist THEN "ValueError"
    ELSE IF req.fext = "" /\ GuessFormat(req.fformat, req.fext) = "guess"
         THEN "ValueError"
    ELSE IF ~req.exists THEN "OSError"
    ELSE IF GuessFormat(req.fformat, req.fext) = "guess" THEN "SystemExit"
    ELSE "none"

\* calls of from_file: format, extension of the file name, whether the file
\* exists, and whether properties are asked for (eclipserun)
Requests ==
    {[fformat |-> ff, fext |-> "", exists |-> e, initprops |-> FALSE] :
        ff \in {"roff", "grid", "egrid", "grdecl", "guess", "bogus"},
        e \in BOOLEAN}
    \cup {[fformat |-> "eclipserun", fext |-> "", exists |-> e, initprops |-> ip] :
        e \in BOOLEAN, ip \in BOOLEAN}
    \cup {[fformat |-> "guess", fext |-> x, exists |-> e, initprops |-> FALSE] :
        x \in {"roff", "txt"}, e \in BOOLEAN}

\* Grid.from_file: the attributes after the call and its outcome
FromFile(self, req, f, fail) ==
    LET fformat == GuessFormat(req.fformat, req.fext)
    IN  IF RequestError(req) # "none"
        THEN [self |-> self, res |-> RequestError(req)]
        ELSE [self |->
                 CASE fformat = "roff" -> import_roff(self, f, fail)
                   [] fformat = "grid" -> import_ecl_output(self, f, 0, fail)
                   [] fformat = "egrid" -> import_ecl_output(self, f, 2, fail)
                   [] fformat = "eclipserun" ->
                         import_ecl_run(self, f, req.initprops, fail)
                   [] fformat = "grdecl" -> import_ecl_grdecl(self, f, fail),
              res |-> ImportResult(fformat, fail)]

\* Grid.from_file on an existing instance
from_file ==
    /\ nimports < MaxImports
    /\ nimports' = nimports + 1
    /\ UNCHANGED <<moves, gridprops>>
    /\ \E req \in Requests :
         IF RequestError(req) # "none"
         THEN /\ last' = Call("from_file", req, RequestError(req), <<>>)
              /\ UNCHANGED grid
         ELSE \E fail \in FailSteps :
              \E f \in IF fail = "scan" THEN {CHOOSE x \in Files : TRUE} ELSE Files :
                 LET r == FromFile(Self, req, f, fail)
                 IN  /\ Becomes(r.self)
                     /\ last' = Call("from_file", req, r.res, <<>>)

\* Grid(): the instance without a file argument
Init ==
    /\ Is(Constructed)
    /\ nimports = 0
    /\ moves = <<>>
    /\ gridprops = GridProperties
    /\ last = Call("Grid", <<>>, "ok", <<>>)

\* Grid(gfile, fformat=...): the instance made directly from a file
InitFile ==
    /\ \E req \in Requests, f \in Files :
         /\ RequestError(req) = "none"
         /\ Is(FromFile(Constructed, req, f, "none").self)
    /\ nimports = 1
    /\ moves = <<>>
    /\ gridprops = GridProperties
    /\ last = Call("Grid", <<>>, "ok", <<>>)

(***************************************************************************)
(* Attached properties and the cached index array.                         *)
(***************************************************************************)
\* lists assigned to Grid.props: empty, matching the grid, or with a
\* property of another size
PropLists ==
    {<<>>,
     <<PropFor("PORO", ncol, nrow, nlay)>>,
     <<PropFor("PORO", ncol, nrow, nlay), PropFor("PERM", ncol, nrow, nlay + 1)>>}

\* variant: only the columns and the rows are compared
PropsMatch_without_layers(list, nc, nr, nl) ==
    \A n \in 1..Len(list) :
        ~(list[n].ncol # nc \/ list[n].nrow # nr)

\* the dimension check of the Grid.props setter
PropsMatch(list, nc, nr, nl) ==
    \A n \in 1..Len(list) :
        ~(list[n].ncol # nc \/ list[n].nrow # nr \/ list[n].nlay # nl)

\* Grid.props (setter)
set_props ==
    \E list \in PropLists :
        /\ IF PropsMatch(list, ncol, nrow, nlay)
           THEN /\ props' = list
                /\ last' = Call("props", list, "ok", <<>>)
           ELSE /\ UNCHANGED props
                /\ last' = Call("props", list, "IndexError", <<>>)
        /\ UNCHANGED <<ncol, nrow, nlay, nsubs, p_coord_v, p_zcorn_v,
                       p_actnum_v, nactive, actnum_indices, nimports, moves, gridprops>>

\* Grid.get_actnum: the values of the ACTNUM property
get_actnum == p_actnum_v.v

\* Grid.actnum_indices
read_actnum_indices ==
    /\ Populated
    /\ IF actnum_indices.null
       THEN actnum_indices' = Ptr(flatnonzero(get_actnum))
       ELSE UNCHANGED actnum_indices
    /\ last' = Call("actnum_indices", <<>>, "ok", actnum_indices'.v)
    /\ UNCHANGED <<ncol, nrow, nlay, nsubs, p_coord_v, p_zcorn_v,
                   p_actnum_v, nactive, props, nimports, moves, gridprops>>

(***************************************************************************)
(* Operations that change the grid or the active mask.                     *)
(***************************************************************************)
\* thresholds given to inactivate_by_dz: a Python value with its type
Thresholds ==
    {[type |-> "int", val |-> 5], [type |-> "float", val |-> 2],
     [type |-> "float", val |-> 6], [type |-> "str", val |-> 5],
     [type |-> "NoneType", val |-> 0]}

\* variant: the int threshold is not converted
CoerceThreshold_skipped(t) == t

\* if isinstance(threshold, int): threshold = float(threshold)
CoerceThreshold(t) ==
    IF t.type = "int" THEN [type |-> "float", val |-> t.val] ELSE t

\* variant: the kernel is called with the flip for reversed grids
DzFlip_reversed == 0 - 1

\* the flip passed to the kernel by inactivate_by_dz
DzFlip == 1

\* Grid.inactivate_by_dz
inactivate_by_dz ==
    /\ Populated
    /\ \E t \in Thresholds :
         LET threshold == CoerceThreshold(t)
         IN  IF threshold.type # "float"
             THEN /\ last' = Call("inactivate_by_dz", t, "ValueError", <<>>)
                  /\ UNCHANGED p_actnum_v
             ELSE /\ p_actnum_v' = Ptr(grd3d_inact_by_dz(ncol, nrow, nlay,
                                          p_zcorn_v.v, p_actnum_v.v,
                                          threshold.val, DzFlip))
                  /\ last' = Call("inactivate_by_dz", t, "ok", <<>>)
    /\ UNCHANGED <<ncol, nrow, nlay, nsubs, p_coord_v, p_zcorn_v,
                   nactive, actnum_indices, props, nimports, moves, gridprops>>

\* bounding box of the pillars in the horizontal
PillarSet(nc, nr, co, m) ==
    {co[CIdx(nc, pi, pj, m)] : pi \in 0..nc, pj \in 0..nr}

Lowest(S) == CHOOSE x \in S : \A y \in S : x <= y

Highest(S) == CHOOSE x \in S : \A y \in S : x >= y

Rect(x1, y1, x2, y2, closed) ==
    [x1 |-> x1, y1 |-> y1, x2 |-> x2, y2 |-> y2, closed |-> closed]

\* the rectangle that exactly covers the footprint of the grid
Footprint ==
    Rect(Lowest(PillarSet(ncol, nrow, p_coord_v.v, 0)),
         Lowest(PillarSet(ncol, nrow, p_coord_v.v, 1)),
         Highest(PillarSet(ncol, nrow, p_coord_v.v, 0)),
         Highest(PillarSet(ncol, nrow, p_coord_v.v, 1)), TRUE)

\* polygon arguments: something that is not a Polygons instance, an empty
\* set, the footprint, its first 100 in X, a polygon without area, an open
\* polygon, and an open polygon together with a closed one
PolyInputs ==
    LET fp    == Footprint
        first == Rect(fp.x1, fp.y1, fp.x1 + 100, fp.y2, TRUE)
        open  == Rect(fp.x1, fp.y1, fp.x1 + 100, fp.y2, FALSE)
        rest  == Rect(fp.x1 + 100, fp.y1, fp.x2, fp.y2, TRUE)
        flat  == Rect(fp.x1, fp.y1, fp.x1, fp.y2, TRUE)
    IN  {[ispoly |-> FALSE, pols |-> <<>>],
         [ispoly |-> TRUE, pols |-> <<>>],
         [ispoly |-> TRUE, pols |-> <<fp>>],
         [ispoly |-> TRUE, pols |-> <<first>>],
         [ispoly |-> TRUE, pols |-> <<flat>>],
         [ispoly |-> TRUE, pols |-> <<open>>],
         [ispoly |-> TRUE, pols |-> <<open, rest>>]}

\* layer_range arguments: None, or a pair of 1-based layers
NoRange == [none |-> TRUE, k1 |-> 0, k2 |-> 0]

LayerRanges ==
    {NoRange} \cup {r \in [none : {FALSE}, k1 : 1..nlay, k2 : 1..nlay] :
                       r.k1 <= r.k2}

\* force_close arguments: it is only tried where a polygon is open
ForceInputs(poly) ==
    IF \E p \in 1..Len(poly.pols) : ~poly.pols[p].closed
    THEN BOOLEAN ELSE {FALSE}

\* k1, k2 as inactivate_inside sets them
RangeK1(layer_range) == IF ~layer_range.none THEN layer_range.k1 ELSE 1

RangeK2(layer_range, nl) == IF ~layer_range.none THEN layer_range.k2 ELSE nl

\* variant: the two methods are exchanged
PolMethod_swapped(inside) == IF ~inside THEN 0 ELSE 1

\* method as inactivate_inside sets it
PolMethod(inside) == IF ~inside THEN 1 ELSE 0

\* iforce as inactivate_inside sets it
PolForce(force_close) == IF force_close THEN 1 ELSE 0

\* variant: the return code of the kernel is not looked at
InactivateInside_silent(op, arg, poly, layer_range, inside, force_close, mids) ==
    /\ IF ~poly.ispoly
       THEN /\ last' = [Call(op, arg, "ValueError", <<>>) EXCEPT !.pre = mids]
            /\ UNCHANGED p_actnum_v
       ELSE LET r == grd3d_inact_outside_pol(poly.pols, ncol, nrow, nlay,
                        mids, p_actnum_v.v,
                        RangeK1(layer_range), RangeK2(layer_range, nlay),
                        PolForce(force_close), PolMethod(inside))
            IN  /\ p_actnum_v' = Ptr(r.actnum)
                /\ last' = [Call(op, arg, "ok", <<>>) EXCEPT !.pre = mids]
    /\ UNCHANGED <<ncol, nrow, nlay, nsubs, p_coord_v, p_zcorn_v,
                   nactive, actnum_indices, props, nimports, moves, gridprops>>

\* body of Grid.inactivate_inside, called as op and recorded with arg; mids
\* are the cell centres of the grid, which the kernel computes from COORD
\* and ZCORN (the record of the call keeps them)
InactivateInside(op, arg, poly, layer_range, inside, force_close, mids) ==
    /\ IF ~poly.ispoly
       THEN /\ last' = [Call(op, arg, "ValueError", <<>>) EXCEPT !.pre = mids]
            /\ UNCHANGED p_actnum_v
       ELSE LET r == grd3d_inact_outside_pol(poly.pols, ncol, nrow, nlay,
                        mids, p_actnum_v.v,
                        RangeK1(layer_range), RangeK2(layer_range, nlay),
                        PolForce(force_close), PolMethod(inside))
            IN  /\ p_actnum_v' = Ptr(r.actnum)
                /\ last' = [Call(op, arg,
                                 IF r.ier = 1 THEN "RuntimeWarning" ELSE "ok",
                                 <<>>) EXCEPT !.pre = mids]
    /\ UNCHANGED <<ncol, nrow, nlay, nsubs, p_coord_v, p_zcorn_v,
                   nactive, actnum_indices, props, nimports, moves, gridprops>>

\* Grid.inactivate_inside
inactivate_inside ==
    /\ Populated
    /\ \E mids \in {CellMids(ncol, nrow, nlay, p_coord_v.v, p_zcorn_v.v)} :
       \E poly \in PolyInputs, layer_range \in LayerRanges,
          inside \in BOOLEAN :
         \E force_close \in ForceInputs(poly) :
             InactivateInside("inactivate_inside", <<>>, poly, layer_range,
                              inside, force_close, mids)

\* variant: inside is left at its default
inactivate_outside_default_inside ==
    /\ Populated
    /\ \E mids \in {CellMids(ncol, nrow, nlay, p_coord_v.v, p_zcorn_v.v)} :
       \E poly \in PolyInputs, layer_range \in LayerRanges :
             InactivateInside("inactivate_outside",
                              [poly |-> poly, layer_range |-> layer_range],
                              poly, layer_range, TRUE, FALSE, mids)

\* Grid.inactivate_outside
inactivate_outside ==
    /\ Populated
    /\ \E mids \in {CellMids(ncol, nrow, nlay, p_coord_v.v, p_zcorn_v.v)} :
       \E poly \in PolyInputs, layer_range \in LayerRanges :
             InactivateInside("inactivate_outside",
                              [poly |-> poly, layer_range |-> layer_range],
                              poly, layer_range, FALSE, FALSE, mids)

\* Grid.collapse_inactive_cells
collapse_inactive_cells ==
    /\ Populated
    /\ p_zcorn_v' = Ptr(grd3d_collapse_inact(ncol, nrow, nlay, p_zcorn_v.v,
                                             p_actnum_v.v))
    /\ last' = Call("collapse_inactive_cells", <<>>, "ok", <<>>)
    /\ UNCHANGED <<ncol, nrow, nlay, nsubs, p_coord_v, p_actnum_v,
                   nactive, actnum_indices, props, nimports, moves, gridprops>>

\* what reduce_to_one_layer found: layers, attached properties, subgrids
Found == [nlay |-> nlay, nprops |-> Len(props), nsubs |-> nsubs]

\* variant: the active count of the kernel is not stored
reduce_to_one_layer_stale_count ==
    /\ Populated
    /\ LET r == grd3d_reduce_onelayer(ncol, nrow, nlay, p_zcorn_v.v, p_actnum_v.v)
       IN  /\ nlay' = 1
           /\ p_zcorn_v' = Ptr(r.zcorn)
           /\ p_actnum_v' = Ptr(r.actnum)
           /\ nsubs' = 0
           /\ props' = <<>>
           /\ last' = [Call("reduce_to_one_layer", <<>>, "ok", <<>>)
                         EXCEPT !.pre = Found]
    /\ UNCHANGED <<ncol, nrow, p_coord_v, nactive, actnum_indices, nimports, moves, gridprops>>

\* variant: the attached properties and the subgrid count are kept
reduce_to_one_layer_keeps_props ==
    /\ Populated
    /\ LET r == grd3d_reduce_onelayer(ncol, nrow, nlay, p_zcorn_v.v, p_actnum_v.v)
       IN  /\ nlay' = 1
           /\ p_zcorn_v' = Ptr(r.zcorn)
           /\ p_actnum_v' = Ptr(r.actnum)
           /\ nactive' = r.nact
           /\ last' = [Call("reduce_to_one_layer", <<>>, "ok", <<>>)
                         EXCEPT !.pre = Found]
    /\ UNCHANGED <<ncol, nrow, p_coord_v, nsubs, props, actnum_indices, nimports, moves, gridprops>>

\* Grid.reduce_to_one_layer; the kernel may fail
reduce_to_one_layer ==
    /\ Populated
    /\ \E fail \in {"none", "kernel"} :
         IF fail = "kernel"
         THEN /\ last' = [Call("reduce_to_one_layer", <<>>, "KernelError", <<>>)
                            EXCEPT !.pre = Found]
              /\ UNCHANGED <<nlay, p_zcorn_v, p_actnum_v, nactive, nsubs, props>>
         ELSE LET r == grd3d_reduce_onelayer(ncol, nrow, nlay, p_zcorn_v.v,
                                             p_actnum_v.v)
              IN  /\ nlay' = 1
                  /\ p_zcorn_v' = Ptr(r.zcorn)
                  /\ p_actnum_v' = Ptr(r.actnum)
                  /\ nactive' = r.nact
                  /\ nsubs' = 0
                  /\ props' = <<>>
                  /\ last' = [Call("reduce_to_one_layer", <<>>, "ok", <<>>)
                                EXCEPT !.pre = Found]
    /\ UNCHANGED <<ncol, nrow, p_coord_v, actnum_indices, nimports, moves, gridprops>>

(***************************************************************************)
(* Moving the grid, and the queries of the geometry.                       *)
(***************************************************************************)
\* arguments of translate_coordinates: a shift with the default flip, a flip
\* with the default shift (valid, or with a component that is not 1 or -1),
\* and a shift together with an invalid flip
MoveArgs ==
    {[translate |-> t, flip |-> <<1, 1, 1>>] :
        t \in {<<0, 0, 0>>, <<100, 100, 10>>, <<0 - 100, 0 - 100, 0 - 10>>,
               <<0, 0, 1000>>, <<0, 0, 0 - 1000>>}}
    \cup {[translate |-> <<0, 0, 0>>, flip |-> f] :
        f \in {<<1, 1, 0 - 1>>, <<1, 2, 1>>}}
    \cup {[translate |-> <<100, 100, 10>>, flip |-> <<0, 1, 1>>]}

\* variant: the two tuples are unpacked into each other's names
translate_coordinates_swapped ==
    /\ Populated
    /\ Len(moves) < MaxMoves
    /\ \E a \in MoveArgs :
         LET r   == grd3d_translate(ncol, nrow, nlay, a.translate, a.flip,
                                    p_coord_v.v, p_zcorn_v.v)
             res == IF r.ier # 0 THEN "Exception" ELSE "ok"
         IN  /\ p_coord_v' = Ptr(r.coord)
             /\ p_zcorn_v' = Ptr(r.zcorn)
             /\ last' = Call("translate_coordinates", a, res, <<>>)
             /\ moves' = Append(moves, [arg |-> a, res |-> res,
                                        coord |-> p_coord_v.v,
                                        zcorn |-> p_zcorn_v.v])
    /\ UNCHANGED <<ncol, nrow, nlay, nsubs, p_actnum_v, nactive,
                   actnum_indices, props, nimports, gridprops>>

\* variant: the return code of the kernel is not looked at
translate_coordinates_unchecked ==
    /\ Populated
    /\ Len(moves) < MaxMoves
    /\ \E a \in MoveArgs :
         LET r == grd3d_translate(ncol, nrow, nlay, a.flip, a.translate,
                                  p_coord_v.v, p_zcorn_v.v)
         IN  /\ p_coord_v' = Ptr(r.coord)
             /\ p_zcorn_v' = Ptr(r.zcorn)
             /\ last' = Call("translate_coordinates", a, "ok", <<>>)
             /\ moves' = Append(moves, [arg |-> a, res |-> "ok",
                                        coord |-> p_coord_v.v,
                                        zcorn |-> p_zcorn_v.v])
    /\ UNCHANGED <<ncol, nrow, nlay, nsubs, p_actnum_v, nactive,
                   actnum_indices, props, nimports, gridprops>>

\* Grid.translate_coordinates; the kernel works on COORD and ZCORN in place
translate_coordinates ==
    /\ Populated
    /\ Len(moves) < MaxMoves
    /\ \E a \in MoveArgs :
         LET r   == grd3d_translate(ncol, nrow, nlay, a.flip, a.translate,
                                    p_coord_v.v, p_zcorn_v.v)
             res == IF r.ier # 0 THEN "Exception" ELSE "ok"
         IN  /\ p_coord_v' = Ptr(r.coord)
             /\ p_zcorn_v' = Ptr(r.zcorn)
             /\ last' = Call("translate_coordinates", a, res, <<>>)
             /\ moves' = Append(moves, [arg |-> a, res |-> res,
                                        coord |-> p_coord_v.v,
                                        zcorn |-> p_zcorn_v.v])
    /\ UNCHANGED <<ncol, nrow, nlay, nsubs, p_actnum_v, nactive,
                   actnum_indices, props, nimports, gridprops>>

\* variant: the flip argument is not used
GetDzFlip_ignored(flip) == 1

\* nflip as get_dz sets it
GetDzFlip(flip) == IF ~flip THEN 0 - 1 ELSE 1

\* option as get_dz and get_xyz set it
MaskOption(mask) == IF mask THEN 1 ELSE 0

\* variant: the property is made without the dimensions of the grid and
\* has those of the GridProperty constructor
get_dz_default_size ==
    /\ Populated
    /\ \E a \in [flip : BOOLEAN, mask : BOOLEAN] :
         last' = Call("get_dz", a, "ok",
                      GridProperty(DefaultNcol, DefaultNrow, DefaultNlay,
                          grd3d_calc_dz(ncol, nrow, nlay, p_zcorn_v.v,
                                        p_actnum_v.v, GetDzFlip(a.flip),
                                        MaskOption(a.mask)),
                          "dZ", FALSE))
    /\ UNCHANGED <<ncol, nrow, nlay, nsubs, p_coord_v, p_zcorn_v, p_actnum_v,
                   nactive, actnum_indices, props, nimports, moves, gridprops>>

\* Grid.get_dz: the property returned; its values are four times the dz
get_dz ==
    /\ Populated
    /\ \E a \in [flip : BOOLEAN, mask : BOOLEAN] :
         last' = Call("get_dz", a, "ok",
                      GridProperty(ncol, nrow, nlay,
                          grd3d_calc_dz(ncol, nrow, nlay, p_zcorn_v.v,
                                        p_actnum_v.v, GetDzFlip(a.flip),
                                        MaskOption(a.mask)),
                          "dZ", FALSE))
    /\ UNCHANGED <<ncol, nrow, nlay, nsubs, p_coord_v, p_zcorn_v, p_actnum_v,
                   nactive, actnum_indices, props, nimports, moves, gridprops>>

\* Grid.get_xyz: the three properties returned; their values are eight
\* times the X, the Y and the Z of the centre
get_xyz ==
    /\ Populated
    /\ \E a \in [mask : BOOLEAN] :
         LET c == grd3d_calc_xyz(ncol, nrow, nlay, p_coord_v.v, p_zcorn_v.v,
                                 p_actnum_v.v, MaskOption(a.mask))
             ptr(m) == [x \in DOMAIN c |->
                          IF c[x].masked THEN Masked ELSE Value(c[x].v[m])]
         IN  last' = Call("get_xyz", a, "ok",
                          <<GridProperty(ncol, nrow, nlay, ptr(1), "X", FALSE),
                            GridProperty(ncol, nrow, nlay, ptr(2), "Y", FALSE),
                            GridProperty(ncol, nrow, nlay, ptr(3), "Z", FALSE)>>)
    /\ UNCHANGED <<ncol, nrow, nlay, nsubs, p_coord_v, p_zcorn_v, p_actnum_v,
                   nactive, actnum_indices, props, nimports, moves, gridprops>>

\* position n of a numpy axis of length dim: negative positions count from
\* the end; -1 here stands for the IndexError of numpy
NpIndex(n, dim) ==
    IF n >= 0 /\ n < dim THEN n
    ELSE IF n < 0 /\ n >= 0 - dim THEN n + dim
    ELSE 0 - 1

\* the mask argument of get_xyz_cell_corners: not given, True or False
MaskArgs ==
    {[given |-> FALSE, val |-> FALSE], [given |-> TRUE, val |-> TRUE],
     [given |-> TRUE, val |-> FALSE]}

\* def get_xyz_cell_corners(self, ijk=(1, 1, 1), mask=True)
CornersMask(m) == IF m.given THEN m.val ELSE TRUE

\* cells asked for: every cell of the grid, and cells with one index outside
\* the grid (-1, 0 or one past the end)
CornerArgs ==
    {[ijk |-> c, mask |-> m] :
        c \in {c \in ((0 - 1)..(ncol + 1)) \X ((0 - 1)..(nrow + 1))
                        \X ((0 - 1)..(nlay + 1)) :
                 Cardinality({n \in 1..3 :
                     c[n] \notin 1..(<<ncol, nrow, nlay>>[n])}) <= 1},
        m \in MaskArgs}

\* Grid.get_xyz_cell_corners: None, or the tuple of 24 values
get_xyz_cell_corners ==
    /\ Populated
    /\ \E a \in CornerArgs :
         LET i    == a.ijk[1]
             j    == a.ijk[2]
             k    == a.ijk[3]
             mask == CornersMask(a.mask)
             ii   == NpIndex(i - 1, ncol)
             jj   == NpIndex(j - 1, nrow)
             kk   == NpIndex(k - 1, nlay)
             r    == grd3d_corners(i, j, k, ncol, nrow, nlay,
                                   p_coord_v.v, p_zcorn_v.v)
         IN  last' =
               IF mask /\ (ii < 0 \/ jj < 0 \/ kk < 0)
               THEN Call("get_xyz_cell_corners", a, "IndexError", None)
               ELSE IF mask /\ get_actnum[CellIdx(ncol, nrow, ii, jj, kk)] = 0
               THEN Call("get_xyz_cell_corners", a, "ok", None)
               ELSE IF ~r.ok
               THEN Call("get_xyz_cell_corners", a, "IndexError", None)
               ELSE Call("get_xyz_cell_corners", a, "ok", Ptr(r.v))
    /\ UNCHANGED <<ncol, nrow, nlay, nsubs, p_coord_v, p_zcorn_v, p_actnum_v,
                   nactive, actnum_indices, props, nimports, moves, gridprops>>

(***************************************************************************)
(* Queries that return GridProperty objects.                               *)
(***************************************************************************)
\* np.indices((ncol, nrow, nlay))[axis]: the array that holds at (i, j, k)
\* the 0-based position along the axis
np_indices(axis, nc, nr, nl) ==
    [c \in (0..(nc - 1)) \X (0..(nr - 1)) \X (0..(nl - 1)) |-> c[axis + 1]]

\* variant: flatten(order='C'), the last index runs fastest
flatten_C(a, nc, nr, nl) ==
    [x \in 1..(nc * nr * nl) |->
        a[<<(x - 1) \div (nr * nl), ((x - 1) \div nl) % nr, (x - 1) % nl>>]]

\* ndarray.flatten(order='F'): the first index runs fastest
flatten_F(a, nc, nr, nl) ==
    [x \in 1..(nc * nr * nl) |->
        a[<<(x - 1) % nc, ((x - 1) \div nc) % nr, (x - 1) \div (nc * nr)>>]]

\* the characters of the decimal digits
Digits == <<"0", "1", "2", "3", "4", "5", "6", "7", "8", "9">>

\* str(n) for an int: its decimal digits, most significant first, after
\* the sign
RECURSIVE str(_)
str(n) ==
    IF n < 0 THEN <<"-">> \o str(0 - n)
    ELSE IF n < 10 THEN <<Digits[n + 1]>>
    ELSE str(n \div 10) \o <<Digits[(n % 10) + 1]>>

\* smallest and largest value of an array
ArrayMin(a) == CHOOSE v \in {a[x] : x \in DOMAIN a} : \A x \in DOMAIN a : v <= a[x]

ArrayMax(a) == CHOOSE v \in {a[x] : x \in DOMAIN a} : \A x \in DOMAIN a : v >= a[x]

\* one turn of the loop of get_indices: the discrete property of an axis
\* with a code for each value from index.min() to index.max()
IndexProperty(axis, name) ==
    LET grd   == np_indices(axis, ncol, nrow, nlay)
        flat  == flatten_F(grd, ncol, nrow, nlay)
        index == [x \in DOMAIN flat |-> flat[x] + 1]
        idx   == GridProperty(ncol, nrow, nlay, index, name, TRUE)
        range == ArrayMin(index)..ArrayMax(index)
    IN  [idx EXCEPT !.codes = [i \in range |-> str(i)],
                    !.ncodes = Cardinality(range)]

\* Grid.get_indices with the default names ('I', 'J', 'K')
get_indices ==
    /\ last' = Call("get_indices", <<"I", "J", "K">>, "ok",
                    <<IndexProperty(0, "I"), IndexProperty(1, "J"),
                      IndexProperty(2, "K")>>)
    /\ UNCHANGED <<ncol, nrow, nlay, nsubs, p_coord_v, p_zcorn_v, p_actnum_v,
                   nactive, actnum_indices, props, nimports, moves, gridprops>>

\* Grid.get_actnum as a call: the discrete property ACTNUM with the codes
\* of 0 and 1; its values are the mask array of the grid
call_get_actnum ==
    /\ Populated
    /\ last' = Call("get_actnum", "ACTNUM", "ok",
                    [GridProperty(ncol, nrow, nlay, get_actnum, "ACTNUM", TRUE)
                       EXCEPT !.codes = [c \in {0, 1} |-> str(c)],
                              !.ncodes = 2])
    /\ UNCHANGED <<ncol, nrow, nlay, nsubs, p_coord_v, p_zcorn_v, p_actnum_v,
                   nactive, actnum_indices, props, nimports, moves, gridprops>>

\* length of the line from (0, 0) to (a, b), rounded down
Hypot(a, b) ==
    IF b = 0 THEN Abs(a)
    ELSE IF a = 0 THEN Abs(b)
    ELSE LET sq == a * a + b * b
         IN  CHOOSE r \in 0..(Abs(a) + Abs(b)) :
                r * r <= sq /\ (r + 1) * (r + 1) > sq

\* grd3d_calc_dxdy: per cell four times its dx and its dy, the sums of the
\* lengths of the four edges along I and along J as seen from above
grd3d_calc_dxdy(nc, nr, nl, co, zc, act) ==
    [x \in 1..Ntot(nc, nr, nl) |->
        LET cn(n, m) == Corner(nc, nr, co, zc, CellI(nc, x), CellJ(nc, nr, x),
                               CellK(nc, nr, x), n, m)
            edge(a, b) == Hypot(cn(b, 0) - cn(a, 0), cn(b, 1) - cn(a, 1))
        IN  <<edge(0, 1) + edge(2, 3) + edge(4, 5) + edge(6, 7),
              edge(0, 2) + edge(1, 3) + edge(4, 6) + edge(5, 7)>>]

\* Grid.get_dxdy with the default names ('dX', 'dY')
get_dxdy ==
    /\ Populated
    /\ LET d == grd3d_calc_dxdy(ncol, nrow, nlay, p_coord_v.v, p_zcorn_v.v,
                                p_actnum_v.v)
           ptr(m) == [x \in DOMAIN d |-> Value(d[x][m])]
       IN  last' = Call("get_dxdy", <<"dX", "dY">>, "ok",
                        <<GridProperty(ncol, nrow, nlay, ptr(1), "dX", FALSE),
                          GridProperty(ncol, nrow, nlay, ptr(2), "dY", FALSE)>>)
    /\ UNCHANGED <<ncol, nrow, nlay, nsubs, p_coord_v, p_zcorn_v, p_actnum_v,
                   nactive, actnum_indices, props, nimports, moves, gridprops>>

\* grd3d_get_all_corners: array n (1..24: x, y, z of corner 0, ..., x, y, z
\* of corner 7) holds the value of every cell, active or not
grd3d_get_all_corners(nc, nr, nl, co, zc, act, n) ==
    [x \in 1..Ntot(nc, nr, nl) |->
        Value(Corner(nc, nr, co, zc, CellI(nc, x), CellJ(nc, nr, x),
                     CellK(nc, nr, x), (n - 1) \div 3, (n - 1) % 3))]

\* Grid.get_xyz_corners with the default names: the 24 properties X0, Y0,
\* Z0, ..., X7, Y7, Z7
get_xyz_corners ==
    /\ Populated
    /\ last' = Call("get_xyz_corners", <<"X", "Y", "Z">>, "ok",
                    [n \in 1..24 |->
                        GridProperty(ncol, nrow, nlay,
                            grd3d_get_all_corners(ncol, nrow, nlay, p_coord_v.v,
                                p_zcorn_v.v, p_actnum_v.v, n),
                            <<<<"X", "Y", "Z">>[((n - 1) % 3) + 1]>>
                               \o str((n - 1) \div 3),
                            FALSE)])
    /\ UNCHANGED <<ncol, nrow, nlay, nsubs, p_coord_v, p_zcorn_v, p_actnum_v,
                   nactive, actnum_indices, props, nimports, moves, gridprops>>

\* smallest and largest member of a set of numbers that is not empty
SetMin(S) == CHOOSE v \in S : \A w \in S : v <= w

SetMax(S) == CHOOSE v \in S : \A w \in S : v >= w

\* grd3d_geometrics: the origin and the bounding box of the grid, eight
\* times their values.  option1 = 1 counts the active cells only, option2
\* = 1 takes the cell centres and 0 the cell corners.  The values are
\* undefined when no cell is counted.  The average rotation, the average
\* dx, dy and dz and the regularity flag of the kernel are not in the
\* record.
grd3d_geometrics(nc, nr, nl, co, zc, act, option1, option2) ==
    LET cells == {x \in 1..Ntot(nc, nr, nl) : option1 = 0 \/ act[x] = 1}
        cn(x, n, m) == Corner(nc, nr, co, zc, CellI(nc, x), CellJ(nc, nr, x),
                              CellK(nc, nr, x), n, m)
        mid(x, m) == Mid8(nc, nr, co, zc, CellI(nc, x), CellJ(nc, nr, x),
                          CellK(nc, nr, x), m)
        pts(m) == IF option2 = 1 THEN {mid(x, m) : x \in cells}
                  ELSE {8 * cn(x, n, m) : x \in cells, n \in 0..7}
        ori(m) == IF option2 = 1 THEN mid(1, m) ELSE 8 * cn(1, 0, m)
        lo(m)  == IF cells = {} THEN Masked ELSE Value(SetMin(pts(m)))
        hi(m)  == IF cells = {} THEN Masked ELSE Value(SetMax(pts(m)))
    IN  [xori |-> Value(ori(0)), yori |-> Value(ori(1)), zori |-> Value(ori(2)),
         xmin |-> lo(0), xmax |-> hi(0), ymin |-> lo(1), ymax |-> hi(1),
         zmin |-> lo(2), zmax |-> hi(2)]

\* Grid.get_geometrics: the values of the kernel, as a list or as a dict
get_geometrics ==
    /\ Populated
    /\ \E a \in [allcells : BOOLEAN, cellcenter : BOOLEAN,
                  return_dict : BOOLEAN] :
         LET option1 == IF a.allcells THEN 0 ELSE 1
             option2 == IF ~a.cellcenter THEN 0 ELSE 1
         IN  last' = Call("get_geometrics", a, "ok",
                          [dict |-> a.return_dict,
                           v |-> grd3d_geometrics(ncol, nrow, nlay, p_coord_v.v,
                                     p_zcorn_v.v, p_actnum_v.v, option1,
                                     option2)])
    /\ UNCHANGED <<ncol, nrow, nlay, nsubs, p_coord_v, p_zcorn_v, p_actnum_v,
                   nactive, actnum_indices, props, nimports, moves, gridprops>>

\* the regular box grid of 2 x 2 x 2 cells of size (100, 100, 10)
BoxFile ==
    [ncol |-> 2, nrow |-> 2, nlay |-> 2, thick |-> <<10, 10>>, act |-> "all"]

\* Grid(gfile, fformat='roff') for a file of the catalogue or the box grid
InitGeom ==
    /\ \E f \in Files \cup {BoxFile} : Is(import_roff(Constructed, f, "none"))
    /\ nimports = 1
    /\ moves = <<>>
    /\ gridprops = GridProperties
    /\ last = Call("Grid", <<>>, "ok", <<>>)

(***************************************************************************)
(* The GridProperties collection (grid_properties.py): a list of           *)
(* GridProperty instances with a list of names and a list of dates.        *)
(***************************************************************************)
\* sequences over S of length 0..n
SeqsUpTo(S, n) == UNION {[1..m -> S] : m \in 0..n}

\* GridProperty instances handed to the collection.  inst is the identity
\* of the instance: two of them have the same name.
Instances ==
    {[isprop |-> TRUE, inst |-> <<0, 1>>, name |-> "PORO", date |-> "None",
      ncol |-> 2, nrow |-> 1, nlay |-> 1],
     [isprop |-> TRUE, inst |-> <<0, 2>>, name |-> "PERM", date |-> "None",
      ncol |-> 2, nrow |-> 1, nlay |-> 1],
     [isprop |-> TRUE, inst |-> <<0, 3>>, name |-> "PORO", date |-> "19991201",
      ncol |-> 1, nrow |-> 1, nlay |-> 2],
     [isprop |-> TRUE, inst |-> <<0, 4>>, name |-> "SWAT", date |-> "19991201",
      ncol |-> 1, nrow |-> 1, nlay |-> 2]}

\* an object that is not a GridProperty
NotAProperty ==
    [isprop |-> FALSE, inst |-> <<0, 0>>, name |-> "", date |-> "None",
     ncol |-> 0, nrow |-> 0, nlay |-> 0]

\* variant: only the last element of the list is looked at
IsIn_last(prop, list) == Len(list) > 0 /\ list[Len(list)].inst = prop.inst

\* prop in self._props: the same instance is in the list
IsIn(prop, list) == \E n \in 1..Len(list) : list[n].inst = prop.inst

\* the loop of append_props from element n of proplist on: the collection
\* after the call and its outcome.  Appending to _names fails when _names
\* holds the empty string.
RECURSIVE AppendProps(_, _, _)
AppendProps(self, proplist, n) ==
    IF n > Len(proplist) THEN [self |-> self, res |-> "ok"]
    ELSE LET prop == proplist[n]
         IN  IF ~prop.isprop THEN [self |-> self, res |-> "ValueError"]
             ELSE IF IsIn(prop, self.props)
                  THEN AppendProps(self, proplist, n + 1)
             ELSE IF self.names_is_str
                  THEN [self |-> [self EXCEPT !.props = Append(@, prop)],
                        res |-> "AttributeError"]
                  ELSE AppendProps(
                           [self EXCEPT !.props = Append(@, prop),
                                        !.names = Append(@, prop.name),
                                        !.dates = Append(@, prop.date),
                                        !.ncol = prop.ncol,
                                        !.nrow = prop.nrow,
                                        !.nlay = prop.nlay],
                           proplist, n + 1)

\* GridProperties.append_props
append_props ==
    /\ Len(gridprops.props) < MaxEntries
    /\ Len(gridprops.names) < MaxEntries
    /\ Len(gridprops.dates) < MaxEntries
    /\ \E proplist \in SeqsUpTo(Instances \cup {NotAProperty}, MaxList) :
         LET r == AppendProps(gridprops, proplist, 1)
         IN  /\ gridprops' = r.self
             /\ last' = Call("GridProperties.append_props", proplist, r.res, <<>>)
    /\ UNCHANGED <<grid, nimports, moves>>

\* values assigned to GridProperties.names: the empty string, the empty
\* list, and lists of names
PropNames == {"PORO", "PERM"}

NamesInputs ==
    {[str |-> TRUE, v |-> <<>>]}
    \cup {[str |-> FALSE, v |-> l] : l \in SeqsUpTo(PropNames, MaxList + 1)}

\* len(nameslist) > len(set(nameslist))
HasDuplicates(l) == Len(l) > Cardinality({l[n] : n \in 1..Len(l)})

\* variant: the list of names is not searched for duplicates
Names_unchecked(self, nameslist) ==
    IF Len(nameslist.v) = 0 /\ Len(self.props) > 0
    THEN IF self.names_is_str
         THEN [self |-> self, res |-> "AttributeError"]
         ELSE [self |-> [self EXCEPT !.names = Append(@, self.props[1].name)],
               res |-> "ok"]
    ELSE IF Len(nameslist.v) # Len(self.props)
    THEN [self |-> self, res |-> "ValueError"]
    ELSE [self |-> [self EXCEPT !.names = nameslist.v,
                                !.names_is_str = nameslist.str,
                                !.named = TRUE],
          res |-> "ok"]

\* the names setter: with an empty value and properties in the collection
\* the loop over the properties returns in its first turn, after it has
\* appended the name of the first property to _names
Names(self, nameslist) ==
    IF Len(nameslist.v) = 0 /\ Len(self.props) > 0
    THEN IF self.names_is_str
         THEN [self |-> self, res |-> "AttributeError"]
         ELSE [self |-> [self EXCEPT !.names = Append(@, self.props[1].name)],
               res |-> "ok"]
    ELSE IF Len(nameslist.v) # Len(self.props)
    THEN [self |-> self, res |-> "ValueError"]
    ELSE IF HasDuplicates(nameslist.v)
    THEN [self |-> self, res |-> "ValueError"]
    ELSE [self |-> [self EXCEPT !.names = nameslist.v,
                                !.names_is_str = nameslist.str,
                                !.named = TRUE],
          res |-> "ok"]

\* GridProperties.names (setter)
names_setter ==
    /\ \E nameslist \in NamesInputs :
         LET r == Names(gridprops, nameslist)
         IN  /\ Len(r.self.names) <= Len(gridprops.names)
                  \/ Len(gridprops.names) < MaxEntries
             /\ gridprops' = r.self
             /\ last' = Call("GridProperties.names", nameslist, r.res, <<>>)
    /\ UNCHANGED <<grid, nimports, moves>>

\* GridProperties.props (setter): the list is stored as it is
props_setter ==
    /\ \E propslist \in SeqsUpTo(Instances, MaxList) :
         /\ gridprops' = [gridprops EXCEPT !.props = propslist]
         /\ last' = Call("GridProperties.props", propslist, "ok", <<>>)
    /\ UNCHANGED <<grid, nimports, moves>>

\* GridProperty.copy of the property at position n of a collection that
\* becomes generation gen: a new instance with the same name, date and size
CopyOf(prp, gen, n) == [prp EXCEPT !.inst = <<gen, n>>]

\* GridProperties.copy; the model goes on with the new instance
copy ==
    /\ gridprops.gen < MaxCopies
    /\ gridprops' =
         [gridprops EXCEPT
            !.props = [n \in 1..Len(@) |-> CopyOf(@[n], gridprops.gen + 1, n)],
            !.names_is_str = FALSE,
            !.gen = @ + 1]
    /\ last' = Call("GridProperties.copy", <<>>, "ok", <<>>)
    /\ UNCHANGED <<grid, nimports, moves>>

(***************************************************************************)
(* The life of a Grid instance: imports, attached properties, the cached   *)
(* index array, and the operations that replace the mask.                  *)
(***************************************************************************)
Next ==
    \/ from_file
    \/ read_actnum_indices

Spec == Init /\ [][Next]_vars

(***************************************************************************)
(* A GridProperties collection that is filled, renamed and copied.         *)
(***************************************************************************)
NextProps ==
    \/ append_props
    \/ names_setter
    \/ props_setter
    \/ copy

SpecProps == Init /\ [][NextProps]_vars

\* a collection that is filled and renamed
NextNames ==
    \/ append_props
    \/ names_setter

SpecNames == Init /\ [][NextNames]_vars

\* a collection that is only appended to
SpecAppend == Init /\ [][append_props]_vars

(***************************************************************************)
(* Imports over an instance that has properties attached, with the layers  *)
(* merged in between.                                                      *)
(***************************************************************************)
NextAttach ==
    \/ from_file
    \/ set_props
    \/ reduce_to_one_layer

SpecAttach == InitFile /\ [][NextAttach]_vars

(***************************************************************************)
(* The operations that change the mask or the corner depths, on a grid     *)
(* made from a file.                                                       *)
(***************************************************************************)
NextMask ==
    \/ inactivate_by_dz
    \/ inactivate_inside
    \/ inactivate_outside
    \/ collapse_inactive_cells
    \/ reduce_to_one_layer

SpecMask == InitFile /\ [][NextMask]_vars

(***************************************************************************)
(* Moves of a grid made from a file, with the cell thickness read in       *)
(* between.                                                                *)
(***************************************************************************)
NextGeom ==
    \/ translate_coordinates
    \/ get_dz

SpecGeom == InitGeom /\ [][NextGeom]_vars

(***************************************************************************)
(* The per-cell queries on a grid made from a file.                        *)
(***************************************************************************)
NextCell ==
    \/ get_xyz
    \/ get_xyz_cell_corners
    \/ get_indices
    \/ call_get_actnum
    \/ get_dz
    \/ get_dxdy
    \/ get_xyz_corners
    \/ get_geometrics

SpecCell == InitGeom /\ [][NextCell]_vars

(***************************************************************************)
(* Properties.                                                             *)
(***************************************************************************)
\* the active mask, and the cells of layer k (1-based) in it
Mask == p_actnum_v.v

InLayers(x, k1, k2) ==
    CellK(ncol, nrow, x) + 1 >= k1 /\ CellK(ncol, nrow, x) + 1 <= k2

\* C1: on a populated grid, nactive is the number of entries equal to 1 in
\* the active mask, whatever operations were called.
C1_NactiveIsMaskCount == Populated => nactive = CountOnes(Mask)

\* C2: a read of actnum_indices returns the ascending 0-based indices of the
\* entries equal to 1 in the mask as it is at the time of the read.
C2_IndicesAreCurrent ==
    last.op = "actnum_indices" => last.ret = flatnonzero(Mask)

\* C3: in every state the three arrays have the sizes given by the current
\* dimensions: ncol*nrow*nlay, ncol*nrow*(nlay+1)*4 and (ncol+1)*(nrow+1)*6.
C3_ArraySizes ==
    /\ Len(p_actnum_v.v) = ncol * nrow * nlay
    /\ Len(p_zcorn_v.v) = ncol * nrow * (nlay + 1) * 4
    /\ Len(p_coord_v.v) = (ncol + 1) * (nrow + 1) * 6

\* C4: an import that fails leaves the dimensions, the three arrays and
\* nactive at their values before the call.
C4_ImportAllOrNothing ==
    [][(last'.op = "from_file" /\ last'.res # "ok")
         => UNCHANGED <<ncol, nrow, nlay, p_coord_v, p_zcorn_v, p_actnum_v,
                        nactive>>]_vars

\* C5: after reduce_to_one_layer the cell of every footprint is active iff
\* one of the original cells of the footprint was, its top depths are those
\* of the top of layer 1, its base depths those of the base of layer nlay,
\* and nactive is the number of active cells of the new mask.
C5_ReduceResult ==
    [][(last'.op = "reduce_to_one_layer" /\ last'.res = "ok")
         => /\ \A i \in 0..(ncol - 1), j \in 0..(nrow - 1) :
                 /\ p_actnum_v'.v[CellIdx(ncol, nrow, i, j, 0)] \in {0, 1}
                 /\ (p_actnum_v'.v[CellIdx(ncol, nrow, i, j, 0)] = 1) <=>
                      (\E k \in 0..(nlay - 1) : Mask[CellIdx(ncol, nrow, i, j, k)] = 1)
                 /\ \A c \in 0..3 :
                      /\ p_zcorn_v'.v[ZIdx(ncol, nrow, i, j, 0, c)]
                           = p_zcorn_v.v[ZIdx(ncol, nrow, i, j, 0, c)]
                      /\ p_zcorn_v'.v[ZIdx(ncol, nrow, i, j, 1, c)]
                           = p_zcorn_v.v[ZIdx(ncol, nrow, i, j, nlay, c)]
            /\ Len(p_actnum_v'.v) = ncol * nrow
            /\ nactive' = CountOnes(p_actnum_v'.v)]_vars

\* a grid reduced from two layers (its cell is thicker than any layer of a
\* file) that has a footprint without active cell next to an active one
C5_Witness ==
    /\ last.op = "reduce_to_one_layer" /\ last.res = "ok" /\ last.pre.nlay = 2
    /\ nlay = 1
    /\ \E x \in 1..ntotal : Mask[x] = 0
    /\ \E x \in 1..ntotal :
         /\ Mask[x] = 1
         /\ Dz4(ncol, nrow, p_zcorn_v.v, CellI(ncol, x), CellJ(ncol, nrow, x), 0, 1)
              >= 4 * 7

\* C6: reduce_to_one_layer sets nlay to 1 and empties the attached
\* properties and the subgrid count, keeps ncol, nrow and the pillars, and
\* leaves the whole Grid unchanged when the kernel fails.
C6_ReduceFrame ==
    [][(last'.op = "reduce_to_one_layer")
         => IF last'.res = "ok"
            THEN /\ nlay' = 1 /\ props' = <<>> /\ nsubs' = 0
                 /\ UNCHANGED <<ncol, nrow, p_coord_v>>
            ELSE UNCHANGED grid]_vars

\* a reduction of a grid of two layers that had properties attached
C6_Witness ==
    /\ last.op = "reduce_to_one_layer" /\ last.res = "ok"
    /\ last.pre.nlay = 2 /\ last.pre.nprops > 0
    /\ nlay = 1 /\ props = <<>>

\* C7: reduce_to_one_layer on a grid that has one layer leaves ncol, nrow,
\* nlay and nactive unchanged.
C7_ReduceSingleLayer ==
    [][(last'.op = "reduce_to_one_layer" /\ last'.res = "ok" /\ nlay = 1)
         => UNCHANGED <<ncol, nrow, nlay, nactive>>]_vars

\* C8: inactivate_by_dz accepts an int or a float threshold, the int with
\* the effect of the float of the same value; with a threshold of another
\* type it raises (ValueError is the exception of the type check) and the
\* mask, the corner depths and nactive are unchanged.
C8_ThresholdType ==
    [][(last'.op = "inactivate_by_dz")
         => IF last'.arg.type \in {"int", "float"}
            THEN /\ last'.res = "ok"
                 /\ p_actnum_v'.v = grd3d_inact_by_dz(ncol, nrow, nlay,
                                       p_zcorn_v.v, Mask, last'.arg.val, 1)
            ELSE /\ last'.res = "ValueError"
                 /\ UNCHANGED <<p_actnum_v, p_zcorn_v, nactive>>]_vars

\* a rejected str threshold; an active cell thinner than its value remains
C8_Witness ==
    /\ last.op = "inactivate_by_dz" /\ last.arg.type = "str"
    /\ last.res = "ValueError"
    /\ \E x \in 1..ntotal :
         /\ Mask[x] = 1
         /\ Dz4(ncol, nrow, p_zcorn_v.v, CellI(ncol, x), CellJ(ncol, nrow, x),
                CellK(ncol, nrow, x), 1) < 4 * last.arg.val

\* C9: after inactivate_by_dz(threshold) every cell whose dz (the mean of
\* its four vertical edges, whatever its mask) is below the threshold is
\* inactive and every other cell has the mask value it had.
C9_ThinCellsInactive ==
    [][(last'.op = "inactivate_by_dz" /\ last'.res = "ok")
         => \A x \in 1..ntotal :
               IF Dz4(ncol, nrow, p_zcorn_v.v, CellI(ncol, x), CellJ(ncol, nrow, x),
                      CellK(ncol, nrow, x), 1) < 4 * last'.arg.val
               THEN p_actnum_v'.v[x] = 0
               ELSE p_actnum_v'.v[x] = Mask[x]]_vars

\* threshold 5: cell (1,1,1) with dz = 2 is inactive, a cell with dz = 5
\* is still active
C9_Witness ==
    /\ last.op = "inactivate_by_dz" /\ last.res = "ok"
    /\ last.arg = [type |-> "int", val |-> 5]
    /\ nlay = 2
    /\ Dz4(ncol, nrow, p_zcorn_v.v, 0, 0, 0, 1) = 4 * 2
    /\ Mask[1] = 0
    /\ \E x \in 1..ntotal :
         /\ Mask[x] = 1
         /\ Dz4(ncol, nrow, p_zcorn_v.v, CellI(ncol, x), CellJ(ncol, nrow, x),
                CellK(ncol, nrow, x), 1) = 4 * 5

\* the polygon argument is the rectangle of the footprint of the grid
Covers(poly) ==
    /\ poly.ispoly /\ poly.pols = <<Footprint>>
    /\ Footprint.x1 < Footprint.x2 /\ Footprint.y1 < Footprint.y2

\* the polygon argument is empty or has polygons without area only
Void(poly) ==
    /\ poly.ispoly
    /\ \A p \in 1..Len(poly.pols) :
         /\ poly.pols[p].closed
         /\ (poly.pols[p].x1 = poly.pols[p].x2 \/ poly.pols[p].y1 = poly.pols[p].y2)

\* C10: inactivate_outside with layers k1..k2: with the polygon of the
\* footprint the number of active cells is unchanged, with an empty or
\* degenerate polygon all cells of layers k1..k2 are inactive; in both cases
\* the cells of the other layers keep their mask value.
C10_OutsidePolygon ==
    [][(last'.op = "inactivate_outside" /\ last'.res = "ok")
         => LET a  == last'.arg
                k1 == RangeK1(a.layer_range)
                k2 == RangeK2(a.layer_range, nlay)
            IN  /\ Covers(a.poly)
                     => CountOnes(p_actnum_v'.v) = CountOnes(Mask)
                /\ Void(a.poly)
                     => \A x \in 1..ntotal :
                           InLayers(x, k1, k2) => p_actnum_v'.v[x] = 0
                /\ (Covers(a.poly) \/ Void(a.poly))
                     => \A x \in 1..ntotal :
                           ~InLayers(x, k1, k2) => p_actnum_v'.v[x] = Mask[x]]_vars

\* outside an empty polygon, layer 1 only: layer 1 is inactive and layer 2
\* still has an active cell
C10_Witness ==
    /\ last.op = "inactivate_outside" /\ last.res = "ok"
    /\ last.arg.poly = [ispoly |-> TRUE, pols |-> <<>>]
    /\ last.arg.layer_range = [none |-> FALSE, k1 |-> 1, k2 |-> 1]
    /\ nlay = 2
    /\ \A x \in 1..ntotal : InLayers(x, 1, 1) => Mask[x] = 0
    /\ \E x \in 1..ntotal : InLayers(x, 2, 2) /\ Mask[x] = 1

\* C11: inactivate_outside(poly, layer_range) leaves the Grid as
\* inactivate_inside(poly, layer_range, inside=False) does, and with
\* layer_range None the layers 1..nlay of the current nlay are treated.
C11_OutsideIsInside ==
    [][(last'.op = "inactivate_outside")
         => LET a == last'.arg
            IN  \E mids \in {last'.pre} :
                  /\ InactivateInside("inactivate_outside", a, a.poly,
                                      a.layer_range, FALSE, FALSE, mids)
                  /\ (a.poly.ispoly /\ a.layer_range.none)
                       => p_actnum_v'.v =
                            grd3d_inact_outside_pol(a.poly.pols, ncol, nrow, nlay,
                                mids, Mask, 1, nlay, 0, 1).actnum]_vars

\* outside the first 100 in X, no layer_range, on a grid of two columns and
\* two layers: in both layers the first column is active, the second is not
C11_Witness ==
    /\ last.op = "inactivate_outside" /\ last.res = "ok"
    /\ last.arg.layer_range = NoRange
    /\ Len(last.arg.poly.pols) = 1
    /\ last.arg.poly.pols[1].closed
    /\ last.arg.poly.pols[1].x2 = 100
    /\ ncol = 2 /\ nrow = 1 /\ nlay = 2
    /\ \A k \in 0..1 :
         /\ Mask[CellIdx(ncol, nrow, 0, 0, k)] = 1
         /\ Mask[CellIdx(ncol, nrow, 1, 0, k)] = 0

\* the polygons of a polygon argument that are closed
ClosedOnly(pols) == SelectSeq(pols, LAMBDA p : p.closed)

HasOpen(pols) == \E p \in 1..Len(pols) : ~pols[p].closed

C13_CollapseFrame ==
    [][(last'.op = "collapse_inactive_cells")
         => /\ UNCHANGED <<ncol, nrow, nlay, p_actnum_v, nactive>>
            /\ \A x \in 1..ntotal :
                 Mask[x] = 1 =>
                   \A c \in 0..3, b \in 0..1 :
                      LET z == ZIdx(ncol, nrow, CellI(ncol, x), CellJ(ncol, nrow, x),
                                    CellK(ncol, nrow, x) + b, c)
                      IN  p_zcorn_v'.v[z] = p_zcorn_v.v[z]]_vars

\* after a collapse: an inactive cell of layer 1 has no thickness, the
\* active cell below it has the thickness of the file
C13_Witness ==
    /\ last.op = "collapse_inactive_cells" /\ last.res = "ok"
    /\ nlay = 2
    /\ Mask[CellIdx(ncol, nrow, 0, 0, 0)] = 0
    /\ Mask[CellIdx(ncol, nrow, 0, 0, 1)] = 1
    /\ Dz4(ncol, nrow, p_zcorn_v.v, 0, 0, 0, 1) = 0
    /\ Dz4(ncol, nrow, p_zcorn_v.v, 0, 0, 1, 1) = 4 * 5

\* every component of a flip is 1 or -1
ValidFlip(f) == \A m \in 1..3 : f[m] \in {1, 0 - 1}

\* C14: translate_coordinates with a flip component that is neither 1 nor -1
\* fails, and the pillar coordinates and the corner depths are what they
\* were before the call.
C14_InvalidFlip ==
    [][(last'.op = "translate_coordinates" /\ ~ValidFlip(last'.arg.flip))
         => /\ last'.res # "ok"
            /\ UNCHANGED <<p_coord_v, p_zcorn_v>>]_vars

\* a call with a shift and the flip (0, 1, 1) failed; the grid is where the
\* call found it
C14_Witness ==
    /\ last.op = "translate_coordinates" /\ last.res = "Exception"
    /\ last.arg.flip = <<0, 1, 1>> /\ last.arg.translate = <<100, 100, 10>>
    /\ p_coord_v.v = moves[Len(moves)].coord
    /\ p_zcorn_v.v = moves[Len(moves)].zcorn
    /\ p_coord_v.v[CIdx(ncol, 1, 0, 0)] = 100

NoFlip == <<1, 1, 1>>

Opposite(t) == <<0 - t[1], 0 - t[2], 0 - t[3]>>

\* the step is a translate_coordinates call that undoes the shift of the
\* call before it (both with the default flip)
UndoesLastMove ==
    /\ last'.op = "translate_coordinates" /\ last'.arg.flip = NoFlip
    /\ moves # <<>>
    /\ moves[Len(moves)].res = "ok"
    /\ moves[Len(moves)].arg.flip = NoFlip
    /\ last'.arg.translate = Opposite(moves[Len(moves)].arg.translate)

\* what every translate_coordinates call with a valid flip does: it
\* succeeds, keeps the dimensions, the mask and nactive, and with the shift
\* (0,0,0) and the flip (1,1,1) it changes nothing
MoveFrame ==
    (last'.op = "translate_coordinates" /\ ValidFlip(last'.arg.flip))
      => /\ last'.res = "ok"
         /\ UNCHANGED <<ncol, nrow, nlay, p_actnum_v, nactive>>
         /\ (last'.arg.translate = <<0, 0, 0>> /\ last'.arg.flip = NoFlip)
              => UNCHANGED <<p_coord_v, p_zcorn_v>>

\* C15 as stated: after translate (dx,dy,dz) and then (-dx,-dy,-dz) all
\* pillar coordinates and corner depths have their original values; the
\* shift (0,0,0) with the flip (1,1,1) changes nothing; the dimensions, the
\* mask and nactive are not changed.
C15_RoundTripExact ==
    [][/\ MoveFrame
       /\ UndoesLastMove
            => /\ p_coord_v'.v = moves[Len(moves)].coord
               /\ p_zcorn_v'.v = moves[Len(moves)].zcorn]_vars

\* the difference a rounded sum of x and d, shifted back, may show
Tolerance(x, d) ==
    IF Ulp(Abs(x)) >= Ulp(Abs(x + d)) THEN Ulp(Abs(x)) ELSE Ulp(Abs(x + d))

\* C15 as amended: the round trip restores every value to within the
\* rounding of the doubles, and exactly where the shifted value is a double.
C15_RoundTripTolerance ==
    [][/\ MoveFrame
       /\ UndoesLastMove
            => LET was == moves[Len(moves)]
                   d   == was.arg.translate
               IN  /\ \A x \in 1..Len(was.coord) :
                        LET dm == d[((x - 1) % 3) + 1]
                        IN  /\ Abs(p_coord_v'.v[x] - was.coord[x])
                                 <= Tolerance(was.coord[x], dm)
                            /\ Fl(was.coord[x] + dm) = was.coord[x] + dm
                                 => p_coord_v'.v[x] = was.coord[x]
                   /\ \A x \in 1..Len(was.zcorn) :
                        /\ Abs(p_zcorn_v'.v[x] - was.zcorn[x])
                             <= Tolerance(was.zcorn[x], d[3])
                        /\ Fl(was.zcorn[x] + d[3]) = was.zcorn[x] + d[3]
                             => p_zcorn_v'.v[x] = was.zcorn[x]]_vars

\* a grid shifted by 1000 in Z and back: X and Y of the pillars are what
\* they were, a corner depth of 5 is not
C15_Witness ==
    /\ Len(moves) = 2
    /\ last.op = "translate_coordinates" /\ last.res = "ok"
    /\ moves[1].arg = [translate |-> <<0, 0, 1000>>, flip |-> NoFlip]
    /\ moves[2].arg = [translate |-> <<0, 0, 0 - 1000>>, flip |-> NoFlip]
    /\ \A x \in 1..Len(p_coord_v.v) :
         (x - 1) % 3 # 2 => p_coord_v.v[x] = moves[1].coord[x]
    /\ \E x \in 1..Len(p_zcorn_v.v) :
         moves[1].zcorn[x] = 5 /\ p_zcorn_v.v[x] # 5

\* a value of a property array with the other sign
Negated(e) == IF e.masked THEN e ELSE Value(0 - e.v)

\* the last move was the flip of Z alone
ZFlipped ==
    /\ moves # <<>>
    /\ moves[Len(moves)].res = "ok"
    /\ moves[Len(moves)].arg = [translate |-> <<0, 0, 0>>, flip |-> <<1, 1, 0 - 1>>]

InGrid(c) == c[1] \in 1..ncol /\ c[2] \in 1..nrow /\ c[3] \in 1..nlay

\* C17: get_xyz_cell_corners returns None for a cell of the grid only when
\* mask=True was given and the cell is inactive; in every other case, and
\* always when mask is not given, it returns the 24 values.
C17_CornersMaskPolicy ==
    (last.op = "get_xyz_cell_corners" /\ InGrid(last.arg.ijk))
      => /\ last.ret.null <=>
              /\ last.arg.mask.given /\ last.arg.mask.val
              /\ Mask[CellIdx(ncol, nrow, last.arg.ijk[1] - 1,
                              last.arg.ijk[2] - 1, last.arg.ijk[3] - 1)] = 0
         /\ ~last.ret.null => Len(last.ret.v) = 24

\* C18: get_xyz_cell_corners with an index outside 1..ncol, 1..nrow, 1..nlay
\* fails with IndexError, returns no geometry and leaves the Grid unchanged.
C18_IndexValidated ==
    [][(last'.op = "get_xyz_cell_corners" /\ ~InGrid(last'.arg.ijk))
         => /\ last'.res = "IndexError"
            /\ last'.ret.null
            /\ UNCHANGED grid]_vars

\* the grid is the box grid of 2 x 2 x 2 cells of size (100, 100, 10)
IsBox ==
    /\ ncol = 2 /\ nrow = 2 /\ nlay = 2
    /\ p_coord_v.v = FileCoord(BoxFile)
    /\ p_zcorn_v.v = FileZcorn(BoxFile)

\* C19: the centre of a cell is the mean of the 8 corners that
\* get_xyz_cell_corners gives; on the box grid the centre of cell (1,1,1) is
\* (50,50,5) and that of cell (2,2,2) is (150,150,15), the base of the last
\* layer lying at the last layer boundary (depth 20).
C19_CellCentre ==
    /\ last.op = "get_xyz"
         => /\ \A x \in 1..ntotal :
                 ~last.ret[1].values[x].masked =>
                   LET cn == grd3d_corners(CellI(ncol, x) + 1,
                                CellJ(ncol, nrow, x) + 1, CellK(ncol, nrow, x) + 1,
                                ncol, nrow, nlay, p_coord_v.v, p_zcorn_v.v).v
                   IN  \A m \in 1..3 :
                          last.ret[m].values[x].v =
                             cn[m] + cn[3 + m] + cn[6 + m] + cn[9 + m]
                             + cn[12 + m] + cn[15 + m] + cn[18 + m] + cn[21 + m]
            /\ IsBox
                 => \A m \in 1..3 :
                       /\ last.ret[m].values[CellIdx(2, 2, 0, 0, 0)]
                            = Value(<<8 * 50, 8 * 50, 8 * 5>>[m])
                       /\ last.ret[m].values[CellIdx(2, 2, 1, 1, 1)]
                            = Value(<<8 * 150, 8 * 150, 8 * 15>>[m])
    /\ (last.op = "get_xyz_cell_corners" /\ IsBox /\ last.arg.ijk = <<2, 2, 2>>
          /\ ~last.ret.null)
         => /\ \A n \in 1..4 : last.ret.v[3 * n] = 10
            /\ \A n \in 5..8 : last.ret.v[3 * n] = 20

\* get_xyz on the box grid: the centre of its last cell is (150, 150, 15)
C19_Witness ==
    /\ last.op = "get_xyz" /\ IsBox
    /\ last.ret[1].values[8] = Value(1200)
    /\ last.ret[2].values[8] = Value(1200)
    /\ last.ret[3].values[8] = Value(120)

\* C20: the Grid made without a file argument has ncol = 4, nrow = 3,
\* nlay = 5, ntotal = 60 and nactive = 60.
C20_DefaultGrid ==
    (last.op = "Grid" /\ nimports = 0)
      => /\ ncol = 4 /\ nrow = 3 /\ nlay = 5
         /\ ntotal = 60
         /\ nactive = 60

(***************************************************************************)
(* C21: Assigning a list to Grid.props: when some property of the list     *)
(* differs from the grid in ncol, nrow or nlay the assignment raises       *)
(* IndexError and the attached list is left as it was; otherwise the       *)
(* attached list becomes the given list.                                   *)
(***************************************************************************)
C21_PropsSetter ==
    [][last'.op = "props" =>
        IF \E n \in 1..Len(last'.arg) :
              <<last'.arg[n].ncol, last'.arg[n].nrow, last'.arg[n].nlay>>
                 # <<ncol, nrow, nlay>>
        THEN last'.res = "IndexError" /\ props' = props
        ELSE last'.res = "ok" /\ props' = last'.arg]_vars

\* a list with a property of another size was rejected, and the properties
\* attached before are still there
C21_Witness ==
    /\ last.op = "props"
    /\ last.res = "IndexError"
    /\ Len(last.arg) = 2
    /\ Len(props) = 1

\* the number a string of decimal digits stands for, or -1 when the string
\* is empty, has another character or starts with a needless 0
RECURSIVE DecimalValue(_)
DecimalValue(s) ==
    IF Len(s) = 0 THEN 0 - 1
    ELSE IF \A d \in 1..10 : Digits[d] # s[Len(s)] THEN 0 - 1
    ELSE LET d == (CHOOSE n \in 1..10 : Digits[n] = s[Len(s)]) - 1
         IN  IF Len(s) = 1 THEN d
             ELSE LET front == DecimalValue(SubSeq(s, 1, Len(s) - 1))
                  IN  IF front <= 0 THEN 0 - 1 ELSE front * 10 + d

(***************************************************************************)
(* C22: get_indices returns the 1-based I, J and K of every cell, laid out *)
(* by idx = k*nrow*ncol + j*ncol + i (I runs fastest): entry idx of the    *)
(* three properties holds i+1, j+1 and k+1.  Each property is discrete     *)
(* and has a code table of exactly ncol (nrow, nlay) codes that maps every *)
(* integer from 1 to ncol (nrow, nlay) to its decimal string.              *)
(***************************************************************************)
C22_Indices ==
    last.op = "get_indices" =>
        /\ Len(last.ret) = 3
        /\ \A m \in 1..3 :
              LET p == last.ret[m]
                  n == <<ncol, nrow, nlay>>[m]
              IN  /\ p.discrete
                  /\ DOMAIN p.values = 1..(ncol * nrow * nlay)
                  /\ \A i \in 0..(ncol - 1), j \in 0..(nrow - 1),
                        k \in 0..(nlay - 1) :
                        p.values[k * nrow * ncol + j * ncol + i + 1]
                           = <<i, j, k>>[m] + 1
                  /\ DOMAIN p.codes = 1..n
                  /\ p.ncodes = n
                  /\ \A c \in 1..n : DecimalValue(p.codes[c]) = c

\* the indices of a grid with more than one column, row and layer
C22_Witness ==
    /\ last.op = "get_indices"
    /\ ncol > 1 /\ nrow > 1 /\ nlay > 1
    /\ last.ret[2].values[3] = 2
    /\ last.ret[3].codes[2] = <<"2">>

\* the names of the properties of a list
NamesOf(list) == [n \in 1..Len(list) |-> list[n].name]

(***************************************************************************)
(* C23: Assigning an empty value to GridProperties.names while the         *)
(* collection holds properties makes the names the list of the names of    *)
(* the properties, [p.name for p in props].                                *)
(***************************************************************************)
C23_NamesDefault ==
    [][(/\ last'.op = "GridProperties.names"
        /\ Len(last'.arg.v) = 0
        /\ Len(gridprops.props) > 0)
       => gridprops'.names = NamesOf(gridprops.props)]_vars

(***************************************************************************)
(* C24: After any sequence of append_props calls every GridProperty        *)
(* instance occurs at most once in the collection, and a call whose list   *)
(* has an element that is not a GridProperty raises ValueError.            *)
(***************************************************************************)
C24_AppendOnce ==
    /\ \A a, b \in 1..Len(gridprops.props) :
          gridprops.props[a].inst = gridprops.props[b].inst => a = b
    /\ last.op = "GridProperties.append_props"
          => ((\E n \in 1..Len(last.arg) : ~last.arg[n].isprop)
                 <=> last.res = "ValueError")

\* the same instance was given twice in one call and is there once
C24_Witness ==
    /\ last.op = "GridProperties.append_props"
    /\ last.res = "ok"
    /\ Len(last.arg) = 2
    /\ last.arg[1] = last.arg[2]
    /\ Len(gridprops.props) = 1

(***************************************************************************)
(* C26: The names setter, given a list that is not empty: it raises        *)
(* ValueError when the length of the list differs from the number of       *)
(* properties or when the list has duplicates, and the stored names are    *)
(* then unchanged; otherwise the list is stored.                           *)
(***************************************************************************)
C26_NamesSetter ==
    [][(last'.op = "GridProperties.names" /\ Len(last'.arg.v) > 0) =>
         LET l == last'.arg.v
         IN  IF \/ Len(l) # Len(gridprops.props)
                \/ \E a, b \in 1..Len(l) : a < b /\ l[a] = l[b]
             THEN /\ last'.res = "ValueError"
                  /\ gridprops'.names = gridprops.names
             ELSE /\ last'.res = "ok"
                  /\ gridprops'.names = l]_vars

\* a list of the right length with a name twice was rejected, and another
\* list of that length was stored
C26_Witness ==
    /\ last.op = "GridProperties.names"
    /\ last.res = "ValueError"
    /\ last.arg.v = <<"PORO", "PORO">>
    /\ Len(gridprops.props) = 2
    /\ gridprops.names = <<"PERM", "PORO">>

(***************************************************************************)
(* C30: In every state of a GridProperties collection reached by           *)
(* append_props, assignments to names and props, and copy, the lists of    *)
(* names, properties and dates have the same length, and names[n] is the   *)
(* name of props[n] as long as the names were not set explicitly.          *)
(***************************************************************************)
C30_ParallelLists ==
    /\ Len(gridprops.names) = Len(gridprops.props)
    /\ Len(gridprops.props) = Len(gridprops.dates)
    /\ ~gridprops.named =>
          \A n \in 1..Len(gridprops.props) :
              gridprops.names[n] = gridprops.props[n].name

(***************************************************************************)
(* C25: from_file turns a bad request down before it touches the grid: a   *)
(* format outside egrid, grid, grdecl, roff, eclipserun, guess raises      *)
(* ValueError; the format guess with a file name without extension raises  *)
(* ValueError; a file that does not exist raises OSError (for a request    *)
(* that passed the two checks before); and in each case ncol, nrow, nlay,  *)
(* the coordinate, depth and mask arrays, nactive and the attached         *)
(* properties are what they were before the call.                          *)
(***************************************************************************)
C25_BadRequest ==
    [][last'.op = "from_file" =>
        LET req      == last'.arg
            badform  == req.fformat \notin {"egrid", "grid", "grdecl", "roff",
                                             "eclipserun", "guess"}
            blind    == req.fformat = "guess" /\ req.fext = ""
            missing  == ~req.exists
            HeldBack == UNCHANGED <<ncol, nrow, nlay, p_coord_v, p_zcorn_v,
                                    p_actnum_v, nactive, props>>
        IN  /\ badform => last'.res = "ValueError" /\ HeldBack
            /\ blind => last'.res = "ValueError" /\ HeldBack
            /\ (missing /\ ~badform /\ ~blind) =>
                   last'.res = "OSError" /\ HeldBack]_vars

\* a populated grid with a property attached, after a request for a file
\* that does not exist
C25_Witness ==
    /\ last.op = "from_file"
    /\ last.res = "OSError"
    /\ last.arg.fformat = "roff"
    /\ Populated
    /\ Len(props) = 1

(***************************************************************************)
(* C27: In every state a Grid reaches by assignments to props, imports     *)
(* (also over a grid that is already populated, and of an Eclipse run with *)
(* its properties) and reduce_to_one_layer, every attached property has    *)
(* the ncol, nrow and nlay of the grid.                                    *)
(***************************************************************************)
C27_PropsFitGrid ==
    \A n \in 1..Len(props) :
        /\ props[n].ncol = ncol
        /\ props[n].nrow = nrow
        /\ props[n].nlay = nlay

(***************************************************************************)
(* C28: inactivate_by_dz, inactivate_inside, inactivate_outside and        *)
(* collapse_inactive_cells never turn an entry of the mask from 0 to 1:    *)
(* a cell that is active after the call was active before it, and the      *)
(* number of active entries of the mask does not grow.                     *)
(***************************************************************************)
C28_MaskOnlyShrinks ==
    [][last'.op \in {"inactivate_by_dz", "inactivate_inside",
                     "inactivate_outside", "collapse_inactive_cells"} =>
        /\ DOMAIN p_actnum_v'.v = DOMAIN p_actnum_v.v
        /\ \A x \in DOMAIN p_actnum_v.v :
              p_actnum_v'.v[x] = 1 => p_actnum_v.v[x] = 1
        /\ CountOnes(p_actnum_v'.v) <= CountOnes(p_actnum_v.v)]_vars

\* a grid that had an inactive cell when it was read, after thin cells
\* were inactivated and others stayed active
C28_Witness ==
    /\ last.op = "inactivate_by_dz"
    /\ last.res = "ok"
    /\ Mask[1] = 0
    /\ \E x \in DOMAIN Mask : Mask[x] = 1
    /\ CountOnes(Mask) + 1 < nactive

\* the GridProperty objects a call has returned
Returned(call) ==
    IF call.op \in {"get_actnum", "get_dz"} THEN {call.ret}
    ELSE IF call.op \in {"get_dxdy", "get_xyz", "get_xyz_corners", "get_indices"}
    THEN {call.ret[n] : n \in DOMAIN call.ret}
    ELSE {}

(***************************************************************************)
(* C29: The queries get_actnum, get_dz, get_dxdy, get_xyz,                 *)
(* get_xyz_cell_corners, get_xyz_corners, get_indices and get_geometrics   *)
(* leave ncol, nrow, nlay, the coordinate, depth and mask arrays, nactive  *)
(* and the attached properties as they were, and every GridProperty they   *)
(* return has the ncol, nrow and nlay the grid has at the call.            *)
(***************************************************************************)
C29_QueriesReadOnly ==
    [][last'.op \in {"get_actnum", "get_dz", "get_dxdy", "get_xyz",
                     "get_xyz_cell_corners", "get_xyz_corners", "get_indices",
                     "get_geometrics"} =>
        /\ UNCHANGED <<ncol, nrow, nlay, p_coord_v, p_zcorn_v, p_actnum_v,
                       nactive, props>>
        /\ \A p \in Returned(last') :
              p.ncol = ncol /\ p.nrow = nrow /\ p.nlay = nlay]_vars

\* the thickness of a grid of two layers with an inactive cell was asked
\* for, and the property returned has two layers
C29_Witness ==
    /\ last.op = "get_dz"
    /\ nlay = 2
    /\ Mask[1] = 0
    /\ last.arg.mask
    /\ last.ret.nlay = 2
    /\ last.ret.values[1].masked
    /\ ~last.ret.values[2].masked

====
